---- MODULE Spec2Model ----
(***************************************************************************)
(* Model of the dual-axis solar tracking engine: the solar position model  *)
(* (core/solar_model.py), the tracker state machine                        *)
(* (core/tracking_logic.py), the predictive movement controller            *)
(* (core/ai_predictive.py) and the day simulator (simulator.py).           *)
(*                                                                         *)
(* Floating point is modelled in fixed point:                              *)
(*   - angles are whole degrees, except the hour angle, which is kept in   *)
(*     quarter degrees (one quarter degree per minute of solar time);      *)
(*   - sines, cosines and incidence cosines are scaled by Scale;           *)
(*   - timestamps are whole minutes since 1 January 00:00 of the year;     *)
(*   - temperatures are tenths of a degree Celsius;                        *)
(*   - irradiance and power are tenths of a W/m^2.                         *)
(***************************************************************************)
EXTENDS Integers, Sequences, FiniteSets, TLC

VARIABLES
    latitude, longitude, utc_offset,  \* DualAxisTracker: immutable fields
    current_tilt, current_azimuth,    \* DualAxisTracker: commanded angles
    last_update_time,                 \* DualAxisTracker: None or <<t>>
    is_winter_mode_active,            \* DualAxisTracker: winter flag
    call,                             \* arguments of the latest update call
    ret,                              \* dict returned by the latest update call
    n_calls,                          \* number of update calls made so far
    sim,                              \* simulate_day: its arguments
    minutes,                          \* simulate_day: loop variable
    records,                          \* simulate_day: the records list
    pc,                               \* simulate_day: position
    ctl                               \* optimize_movement: arguments and result

vars == <<latitude, longitude, utc_offset, current_tilt, current_azimuth,
          last_update_time, is_winter_mode_active, call, ret, n_calls,
          sim, minutes, records, pc, ctl>>

trackerVars == <<latitude, longitude, utc_offset, current_tilt, current_azimuth,
                 last_update_time, is_winter_mode_active, call, ret, n_calls>>

simVars == <<sim, minutes, records, pc>>

-----------------------------------------------------------------------------
(* Fixed-point arithmetic *)

Scale == 10000

Max(a, b) == IF a >= b THEN a ELSE b

Min(a, b) == IF a <= b THEN a ELSE b

\* a / b rounded to the nearest integer (b > 0)
RoundDiv(a, b) == (2 * a + b) \div (2 * b)

\* Scale * sin(d degrees) for d = 0..90
SinTable ==
    <<0, 175, 349, 523, 698, 872, 1045, 1219, 1392, 1564, 1736, 1908, 2079, 2250,
      2419, 2588, 2756, 2924, 3090, 3256, 3420, 3584, 3746, 3907, 4067, 4226, 4384,
      4540, 4695, 4848, 5000, 5150, 5299, 5446, 5592, 5736, 5878, 6018, 6157, 6293,
      6428, 6561, 6691, 6820, 6947, 7071, 7193, 7314, 7431, 7547, 7660, 7771, 7880,
      7986, 8090, 8192, 8290, 8387, 8480, 8572, 8660, 8746, 8829, 8910, 8988, 9063,
      9135, 9205, 9272, 9336, 9397, 9455, 9511, 9563, 9613, 9659, 9703, 9744, 9781,
      9816, 9848, 9877, 9903, 9925, 9945, 9962, 9976, 9986, 9994, 9998, 10000>>

\* Scale * sin(r degrees) for r = 0..359, by the symmetries of the sine
SinReduced(r) ==
    IF r <= 180
    THEN SinTable[(IF r <= 90 THEN r ELSE 180 - r) + 1]
    ELSE -SinTable[(IF r <= 270 THEN r - 180 ELSE 360 - r) + 1]

\* math.sin(math.radians(d)), scaled
Sin(d) == SinReduced(d % 360)

\* math.cos(math.radians(d)), scaled
Cos(d) == Sin(d + 90)

\* the least d in 0..180 with Cos(d) <= x (Cos decreases on 0..180)
AcosCeil(x) ==
    CHOOSE d \in 0..180 : Cos(d) <= x /\ (d = 0 \/ Cos(d - 1) > x)

\* of d - 1 and d, the angle whose cosine is nearer x
AcosNearest(x, d) ==
    IF d > 0 /\ (Cos(d - 1) - x) < (x - Cos(d)) THEN d - 1 ELSE d

\* math.degrees(math.acos(x / Scale)), to the nearest degree
Acos(x) == AcosNearest(x, AcosCeil(x))

-----------------------------------------------------------------------------
(* core/solar_model.py *)

MinutesPerDay == 1440

\* dt.timetuple().tm_yday
get_day_of_year(dt) == (dt \div MinutesPerDay) + 1

\* the harmonic series of the Equation of Time at B degrees, scaled by 10^6
EotSeries(B) ==
    RoundDiv(75 * Scale + 1868 * Cos(B) - 32077 * Sin(B)
             - 14615 * Cos(2 * B) - 40849 * Sin(2 * B), Scale)

\* Equation of Time in whole minutes: 229.18 * series
equation_of_time(n) ==
    RoundDiv(EotSeries(RoundDiv((n - 1) * 360, 365)) * 2292, 10000000)

\* Solar declination in whole degrees
solar_declination(n) ==
    RoundDiv(2345 * Sin(RoundDiv(360 * (284 + n), 365)), 100 * Scale)

standard_meridian(utc_offset_hours) == utc_offset_hours * 15

\* Time correction in minutes
solar_time_correction(lon, utc_offset_hours, n) ==
    4 * (lon - standard_meridian(utc_offset_hours)) + equation_of_time(n)

\* Solar time in minutes, wrapped to one day
calculate_solar_time(dt, lon, utc_offset_hours) ==
    ((dt % MinutesPerDay)
     + solar_time_correction(lon, utc_offset_hours, get_day_of_year(dt)))
    % MinutesPerDay

\* Hour angle in quarter degrees: 15 degrees per hour of solar time
hour_angle(solar_time) == solar_time - 720

\* sin(lat) sin(dec) + cos(lat) cos(dec) cos(h), clamped to [-1, 1], scaled
CosThetaZ(lat, declination, h) ==
    Max(-Scale, Min(Scale,
        RoundDiv(Sin(lat) * Sin(declination), Scale)
        + RoundDiv(RoundDiv(Cos(lat) * Cos(declination), Scale) * Cos(h), Scale)))

\* (sin(dec) cos(lat) - cos(dec) sin(lat) cos(h)) / sin(zenith), clamped, scaled
CosGamma(lat, declination, h, sin_theta_z) ==
    Max(-Scale, Min(Scale,
        RoundDiv((RoundDiv(Sin(declination) * Cos(lat), Scale)
                  - RoundDiv(RoundDiv(Cos(declination) * Sin(lat), Scale) * Cos(h),
                             Scale)) * Scale,
                 sin_theta_z)))

\* the azimuth from acos(cos_gamma), mirrored in the afternoon
MirrorAzimuth(azimuth_deg, hour_angle_q) ==
    IF hour_angle_q > 0 THEN 360 - azimuth_deg ELSE azimuth_deg

\* the azimuth for a known zenith: 0 when the sun is at the zenith
AzimuthFor(lat, declination, hour_angle_q, h, sin_theta_z) ==
    IF sin_theta_z * 1000 > Scale
    THEN MirrorAzimuth(Acos(CosGamma(lat, declination, h, sin_theta_z)), hour_angle_q)
    ELSE 0

\* <<zenith, azimuth>> for a known zenith
WithAzimuth(lat, declination, hour_angle_q, h, zenith_deg) ==
    <<zenith_deg, AzimuthFor(lat, declination, hour_angle_q, h, Sin(zenith_deg))>>

\* <<zenith, azimuth>> for the hour angle h in whole degrees
ZenithThenAzimuth(lat, declination, hour_angle_q, h) ==
    WithAzimuth(lat, declination, hour_angle_q, h, Acos(CosThetaZ(lat, declination, h)))

\* <<zenith, azimuth>> in whole degrees
zenith_and_azimuth(lat, declination, hour_angle_q) ==
    ZenithThenAzimuth(lat, declination, hour_angle_q, RoundDiv(hour_angle_q, 4))

\* the dict returned by get_target_angles
TargetAngles(za, declination, solar_time) ==
    [tilt |-> za[1], azimuth |-> za[2], zenith |-> za[1],
     declination |-> declination, solar_time |-> solar_time,
     hour_angle |-> hour_angle(solar_time)]

\* get_target_angles once the declination and the solar time are known
AnglesAt(lat, declination, solar_time) ==
    TargetAngles(zenith_and_azimuth(lat, declination, hour_angle(solar_time)),
                 declination, solar_time)

get_target_angles(dt, lat, lon, utc_offset_hours) ==
    AnglesAt(lat, solar_declination(get_day_of_year(dt)),
             calculate_solar_time(dt, lon, utc_offset_hours))

-----------------------------------------------------------------------------
(* Bounds and input sets *)

\* update calls made on one tracker
MaxCalls == 3

\* (latitude, longitude, UTC offset): Los Angeles area; Sydney area
Locations == {<<35, -118, -8>>, <<-35, 150, 10>>}

\* 15 January, minutes of the day: night, sunrise, around noon; at 12:10 in
\* Sydney the sun has just passed due north and its azimuth comes back as 360
CallTimes ==
    {14 * MinutesPerDay + m : m \in {0, 5, 50, 60, 420, 720, 725, 730, 770, 780}}

\* 1.9 C and 2.0 C: either side of the winter threshold
Temperatures == {19, 20}

\* caller-supplied minimum intervals, in minutes
MinIntervals == {-20, 0, 10}

\* simulated days: 15 January (given with a time of day) and 21 June
SimDates == {14 * MinutesPerDay + 615, 171 * MinutesPerDay}

\* (latitude, longitude, UTC offset): Los Angeles area; latitude out of range;
\* longitude out of range
SimLocations == {<<35, -118, -8>>, <<95, -118, -8>>, <<35, 200, -8>>}

\* datetime(date_obj.year, date_obj.month, date_obj.day, 0, 0, 0)
start_of_day(date_obj) == (date_obj \div MinutesPerDay) * MinutesPerDay

\* the instants of the simulated days, every 10 minutes, and the instant that
\* ends each day
SimTimes ==
    {start_of_day(d) + 10 * k : d \in SimDates, k \in 0..(MinutesPerDay \div 10)}

\* the instants and places at which the sun's position is asked for
SolarQueries == (CallTimes \cup SimTimes) \X (Locations \cup SimLocations)

\* get_target_angles at every instant and place asked for, computed once and
\* kept as an explicit table (@@ builds the table of all its values)
SolarMemo ==
    [q \in SolarQueries |-> get_target_angles(q[1], q[2][1], q[2][2], q[2][3])]
    @@ <<>>

\* the value of a call get_target_angles(dt, lat, lon, utc_offset_hours)
Optimal(dt, lat, lon, utc_offset_hours) ==
    SolarMemo[<<dt, <<lat, lon, utc_offset_hours>>>>]

-----------------------------------------------------------------------------
(* core/tracking_logic.py *)

\* last_update_time is None, or <<t>> once an update has been committed
None == <<>>

\* the tracker object: DualAxisTracker.__init__
NewTracker(lat, lon, utc_offset_hours) ==
    [latitude |-> lat, longitude |-> lon, utc_offset |-> utc_offset_hours,
     current_tilt |-> 0, current_azimuth |-> 0,
     last_update_time |-> None, is_winter_mode_active |-> FALSE]

\* WinterModeCheck with the threshold itself counted as winter
WinterModeCheck_Inclusive(temperature_c, snow_detected) ==
    (temperature_c <= 20) /\ snow_detected

\* (temperature_c < 2.0) and snow_detected; temperature in tenths of a degree
WinterModeCheck(temperature_c, snow_detected) ==
    (temperature_c < 20) /\ snow_detected

\* UpdateInterval without the winter interval
UpdateInterval_NoWinter(winter, min_update_interval_minutes) ==
    min_update_interval_minutes

\* 60 if self.is_winter_mode_active else min_update_interval_minutes
UpdateInterval(winter, min_update_interval_minutes) ==
    IF winter THEN 60 ELSE min_update_interval_minutes

\* IntervalNotReached with the subtraction reversed
IntervalNotReached_Reversed(last, dt_local, update_interval) ==
    /\ last # None
    /\ (last[1] - dt_local) < update_interval

\* last_update_time is not None and time_diff < update_interval
IntervalNotReached(last, dt_local, update_interval) ==
    /\ last # None
    /\ (dt_local - last[1]) < update_interval

\* WinterOverride that keeps following the sun's azimuth
WinterOverride_Tracking(winter, optimal, cur_azimuth) ==
    IF winter
    THEN <<IF optimal.tilt >= 65 THEN optimal.tilt ELSE 65, optimal.azimuth,
           "winter_optimized">>
    ELSE <<optimal.tilt, optimal.azimuth, "track">>

\* WinterOverride that does not raise the tilt
WinterOverride_NoFloor(winter, optimal, cur_azimuth) ==
    IF winter
    THEN <<optimal.tilt, cur_azimuth, "winter_optimized">>
    ELSE <<optimal.tilt, optimal.azimuth, "track">>

\* the winter override of the optimal angles: <<tilt, azimuth, action>>
WinterOverride(winter, optimal, cur_azimuth) ==
    IF winter
    THEN <<Max(optimal.tilt, 65), cur_azimuth, "winter_optimized">>
    ELSE <<optimal.tilt, optimal.azimuth, "track">>

\* NightOverride that lays the panel flat in winter too
NightOverride_Flat(winter, optimal, target) ==
    IF optimal.zenith > 90 THEN <<0, 180, "stow">> ELSE target

\* NightOverride with the comparison inverted: stows while the sun is up
NightOverride_Daytime(winter, optimal, target) ==
    IF optimal.zenith < 90
    THEN <<IF winter THEN 65 ELSE 0, 180, "stow">>
    ELSE target

\* the night override, applied after the winter override
NightOverride(winter, optimal, target) ==
    IF optimal.zenith > 90
    THEN <<IF winter THEN 65 ELSE 0, 180, "stow">>
    ELSE target

\* LimitConstraints without the wrap of the azimuth
LimitConstraints_NoWrap(target) ==
    <<Max(0, Min(90, target[1])), target[2], target[3]>>

\* actuator limits: tilt clamped to 0..90, azimuth wrapped to 0..359
LimitConstraints(target) ==
    <<Max(0, Min(90, target[1])), target[2] % 360, target[3]>>

\* the early return: only the winter flag is stored
Skip(self, winter) ==
    [self |-> [self EXCEPT !.is_winter_mode_active = winter],
     ret  |-> [action |-> "skip", reason |-> "Update interval not reached",
               tilt |-> self.current_tilt, azimuth |-> self.current_azimuth,
               winter_mode |-> winter]]

\* the state update and the returned command for the target <<tilt, azimuth, action>>
Commit(self, dt_local, winter, optimal, target) ==
    [self |-> [self EXCEPT !.is_winter_mode_active = winter,
                           !.current_tilt = target[1],
                           !.current_azimuth = target[2],
                           !.last_update_time = <<dt_local>>],
     ret  |-> [action |-> target[3], tilt |-> target[1], azimuth |-> target[2],
               winter_mode |-> winter, zenith |-> optimal.zenith,
               solar_time |-> optimal.solar_time]]

\* the target after the winter override, the night override and the limits
Target(winter, optimal, cur_azimuth) ==
    LimitConstraints(NightOverride(winter, optimal,
                                   WinterOverride(winter, optimal, cur_azimuth)))

\* the path that is not skipped, optimal being the angles of the instant
Move(self, dt_local, winter, optimal) ==
    Commit(self, dt_local, winter, optimal,
           Target(winter, optimal, self.current_azimuth))

\* DualAxisTracker.update once the winter flag is known
UpdateIn(self, dt_local, winter, min_update_interval_minutes) ==
    IF IntervalNotReached(self.last_update_time, dt_local,
                          UpdateInterval(winter, min_update_interval_minutes))
    THEN Skip(self, winter)
    ELSE Move(self, dt_local, winter,
              Optimal(dt_local, self.latitude, self.longitude, self.utc_offset))

\* DualAxisTracker.update: the tracker after the call and the returned dict
update(self, dt_local, temperature_c, snow_detected, min_update_interval_minutes) ==
    UpdateIn(self, dt_local, WinterModeCheck(temperature_c, snow_detected),
             min_update_interval_minutes)

\* the tracker object held in the variables
Self ==
    [latitude |-> latitude, longitude |-> longitude, utc_offset |-> utc_offset,
     current_tilt |-> current_tilt, current_azimuth |-> current_azimuth,
     last_update_time |-> last_update_time,
     is_winter_mode_active |-> is_winter_mode_active]

\* store a tracker object into the variables
SetSelf(s) ==
    /\ latitude' = s.latitude
    /\ longitude' = s.longitude
    /\ utc_offset' = s.utc_offset
    /\ current_tilt' = s.current_tilt
    /\ current_azimuth' = s.current_azimuth
    /\ last_update_time' = s.last_update_time
    /\ is_winter_mode_active' = s.is_winter_mode_active

\* the effect of a call on the variables, r being what update computed
Returned(r) ==
    /\ SetSelf(r.self)
    /\ ret' = r.ret

\* one call tracker.update(dt_local, temperature_c, snow_detected, interval)
CallUpdate(dt_local, temperature_c, snow_detected, min_update_interval_minutes) ==
    /\ Returned(update(Self, dt_local, temperature_c, snow_detected,
                       min_update_interval_minutes))
    /\ call' = [dt_local |-> dt_local, temperature_c |-> temperature_c,
                snow_detected |-> snow_detected,
                min_update_interval_minutes |-> min_update_interval_minutes]
    /\ n_calls' = n_calls + 1

-----------------------------------------------------------------------------
(* Values of the variables a specification does not use *)

NoCall == [dt_local |-> 0, temperature_c |-> 0, snow_detected |-> FALSE,
           min_update_interval_minutes |-> 0]

NoRet == [action |-> "none"]

NoSim == [date_obj |-> 0, lat |-> 0, lon |-> 0, utc_offset |-> 0, temps |-> <<>>,
          snow_detected |-> FALSE, fixed_tilt |-> 0, fixed_azimuth |-> 0]

NoCtl == [called |-> FALSE]

-----------------------------------------------------------------------------
(* A tracker driven by arbitrary update calls *)

Init ==
    /\ \E loc \in Locations :
           LET s == NewTracker(loc[1], loc[2], loc[3])
           IN  /\ latitude = s.latitude
               /\ longitude = s.longitude
               /\ utc_offset = s.utc_offset
               /\ current_tilt = s.current_tilt
               /\ current_azimuth = s.current_azimuth
               /\ last_update_time = s.last_update_time
               /\ is_winter_mode_active = s.is_winter_mode_active
    /\ call = NoCall
    /\ ret = NoRet
    /\ n_calls = 0
    /\ sim = NoSim
    /\ minutes = 0
    /\ records = <<>>
    /\ pc = "tracker"
    /\ ctl = NoCtl

Update ==
    /\ pc = "tracker"
    /\ n_calls < MaxCalls
    /\ \E dt \in CallTimes, temp \in Temperatures, snow \in BOOLEAN,
          interval \in MinIntervals :
           CallUpdate(dt, temp, snow, interval)
    /\ UNCHANGED <<simVars, ctl>>

Next == Update

Spec == Init /\ [][Next]_vars

-----------------------------------------------------------------------------
(* simulator.py *)

\* InRange with the end of the range included
InRange_Inclusive(m) == m <= 24 * 60

\* range(0, 24 * 60, 10): the loop continues while the loop variable is in range
InRange(m) == m < 24 * 60

\* range(0, 24 * 60, 10): the next value of the loop variable
NextMinutes(m) == m + 10

\* temps[hour_int] if hour_int < len(temps) else temps[-1] (temps not empty)
temp_at(temps, hour_int) ==
    IF hour_int < Len(temps) THEN temps[hour_int + 1] ELSE temps[Len(temps)]

\* 1000 * cos(zenith) when zenith < 90, else 0; in tenths of a W/m^2
irradiance_direct(zenith) ==
    IF zenith < 90 THEN RoundDiv(1000 * 10 * Cos(zenith), Scale) ELSE 0

\* max(0.0, cos(tilt difference) * cos(azimuth difference)), scaled
inc_cos(tilt_diff, azimuth_diff) ==
    Max(0, RoundDiv(Cos(tilt_diff) * Cos(azimuth_diff), Scale))

\* irradiance * incidence cosine, in tenths of a W/m^2
power(irradiance, incidence) == RoundDiv(irradiance * incidence, Scale)

\* the record appended by one iteration of the loop
SimRecord(s, current_time, temp_now, optimal, tracker_state, irradiance) ==
    [Time |-> current_time,
     Hour |-> current_time % MinutesPerDay,
     Zenith |-> optimal.zenith,
     Opt_Tilt |-> optimal.tilt,
     Opt_Azimuth |-> optimal.azimuth,
     Dual_Tilt |-> tracker_state.tilt,
     Dual_Azimuth |-> tracker_state.azimuth,
     Is_Winter |-> tracker_state.winter_mode,
     Temp_C |-> temp_now,
     Irradiance_W_m2 |-> irradiance,
     Power_Dual |-> power(irradiance,
                          inc_cos(optimal.tilt - tracker_state.tilt,
                                  optimal.azimuth - tracker_state.azimuth)),
     Power_Single |-> power(irradiance, inc_cos(optimal.tilt - s.fixed_tilt, 0)),
     Power_Fixed |-> power(irradiance,
                           inc_cos(optimal.tilt - s.fixed_tilt,
                                   optimal.azimuth - s.fixed_azimuth))]

\* the record for the optimal geometry of the instant
RecordAt(s, current_time, temp_now, optimal, tracker_state) ==
    SimRecord(s, current_time, temp_now, optimal, tracker_state,
              irradiance_direct(optimal.zenith))

\* the temperature of the instant: the profile indexed by the truncated hour
temp_now(s, current_time) ==
    temp_at(s.temps, (current_time % MinutesPerDay) \div 60)

\* the body of the loop at current_time: advance the tracker, append a record
Iteration(current_time) ==
    /\ CallUpdate(current_time, temp_now(sim, current_time), sim.snow_detected, 10)
    /\ records' = Append(records,
                         RecordAt(sim, current_time, temp_now(sim, current_time),
                                  Optimal(current_time, sim.lat, sim.lon,
                                          sim.utc_offset),
                                  ret'))

\* hourly temperature profiles, in tenths of a degree: empty, constant -5 C,
\* constant 5 C, and 5 C in the first hour then -5 C (last entry reused)
Profiles == {<<>>, <<-50>>, <<50>>, <<50, -50>>}

SimInit ==
    /\ \E date_obj \in SimDates, loc \in SimLocations, temps \in Profiles,
          snow \in BOOLEAN :
           /\ sim = [date_obj |-> date_obj, lat |-> loc[1], lon |-> loc[2],
                     utc_offset |-> loc[3], temps |-> temps, snow_detected |-> snow,
                     fixed_tilt |-> 30, fixed_azimuth |-> 180]
           /\ LET s == NewTracker(loc[1], loc[2], loc[3])
              IN  /\ latitude = s.latitude
                  /\ longitude = s.longitude
                  /\ utc_offset = s.utc_offset
                  /\ current_tilt = s.current_tilt
                  /\ current_azimuth = s.current_azimuth
                  /\ last_update_time = s.last_update_time
                  /\ is_winter_mode_active = s.is_winter_mode_active
    /\ call = NoCall
    /\ ret = NoRet
    /\ n_calls = 0
    /\ minutes = 0
    /\ records = <<>>
    /\ pc = "loop"
    /\ ctl = NoCtl

\* one iteration of the loop with a temperature profile that is not empty
SimTick ==
    /\ pc = "loop"
    /\ InRange(minutes)
    /\ sim.temps # <<>>
    /\ Iteration(start_of_day(sim.date_obj) + minutes)
    /\ minutes' = NextMinutes(minutes)
    /\ UNCHANGED <<sim, pc, ctl>>

\* the first iteration with an empty profile: temps[-1] raises IndexError
SimIndexError ==
    /\ pc = "loop"
    /\ InRange(minutes)
    /\ sim.temps = <<>>
    /\ pc' = "IndexError"
    /\ UNCHANGED <<trackerVars, sim, minutes, records, ctl>>

\* the loop is over: the records are returned as a DataFrame
SimReturn ==
    /\ pc = "loop"
    /\ ~InRange(minutes)
    /\ pc' = "done"
    /\ UNCHANGED <<trackerVars, sim, minutes, records, ctl>>

SimNext == SimTick \/ SimIndexError \/ SimReturn

\* simulate_day runs to its end: nothing suspends or preempts the loop
SimSpec == SimInit /\ [][SimNext]_vars /\ WF_vars(SimNext)

-----------------------------------------------------------------------------
(* core/ai_predictive.py *)
(* Powers are hundredths of a watt, energies hundredths of a watt-hour; the  *)
(* area is in tenths of a square metre and the efficiency in per cent. The   *)
(* irradiance predicted by the regression model is an input of the call.     *)

\* predicted_irradiance * area * efficiency
expected_power_moving(predicted_irradiance, area, efficiency) ==
    RoundDiv(predicted_irradiance * area * efficiency, 10)

\* max(0.0, np.cos(tilt_diff_rad) * np.cos(az_diff_rad)), scaled
incidence_cos(tilt_diff, az_diff) ==
    Max(0, RoundDiv(Cos(tilt_diff) * Cos(az_diff), Scale))

\* predicted_irradiance * area * efficiency * incidence_cos
expected_power_staying(power_moving, incidence) ==
    RoundDiv(power_moving * incidence, Scale)

\* power * time_delta_h, time_delta_h being 10 / 60 of an hour
expected_energy(power_w) == RoundDiv(power_w * 10, 60)

\* expected_energy_moving_wh - expected_energy_staying_wh
energy_gain(a) ==
    expected_energy(expected_power_moving(a.predicted_irradiance, a.area,
                                          a.efficiency))
    - expected_energy(
          expected_power_staying(
              expected_power_moving(a.predicted_irradiance, a.area, a.efficiency),
              incidence_cos(a.target_tilt - a.current_tilt,
                            a.target_azimuth - a.current_azimuth)))

\* MoveRejected that approves when the gain equals the cost
MoveRejected_Strict(gain, motor_energy_cost) == gain < motor_energy_cost

\* if energy_gain <= self.motor_energy_cost: do not move
MoveRejected(gain, motor_energy_cost) == gain <= motor_energy_cost

\* the decision record for a known gain
Decision(a, gain) ==
    IF MoveRejected(gain, a.motor_energy_cost)
    THEN [move_approved |-> FALSE, reason |-> "Energy gain < motor cost",
          predicted_irradiance |-> a.predicted_irradiance,
          final_tilt |-> a.current_tilt, final_azimuth |-> a.current_azimuth]
    ELSE [move_approved |-> TRUE, reason |-> "Energy gain justifies move",
          predicted_irradiance |-> a.predicted_irradiance,
          final_tilt |-> a.target_tilt, final_azimuth |-> a.target_azimuth]

\* PredictiveController.optimize_movement
optimize_movement(a) == Decision(a, energy_gain(a))

\* motor energy costs: the default 2.5 Wh, and 50 Wh
MotorCosts == {250, 5000}

\* irradiances the predictor may return, in W/m^2
Irradiances == {0, 75, 750, 1000}

\* arguments of optimize_movement
ControllerArgs ==
    [motor_energy_cost : MotorCosts, predicted_irradiance : Irradiances,
     current_tilt : {0, 30}, target_tilt : {30, 90},
     current_azimuth : {0, 180}, target_azimuth : {180, 270},
     area : {20}, efficiency : {10, 20}]

CtlInit ==
    /\ LET s == NewTracker(35, -118, -8)
       IN  /\ latitude = s.latitude
           /\ longitude = s.longitude
           /\ utc_offset = s.utc_offset
           /\ current_tilt = s.current_tilt
           /\ current_azimuth = s.current_azimuth
           /\ last_update_time = s.last_update_time
           /\ is_winter_mode_active = s.is_winter_mode_active
    /\ call = NoCall
    /\ ret = NoRet
    /\ n_calls = 0
    /\ sim = NoSim
    /\ minutes = 0
    /\ records = <<>>
    /\ pc = "controller"
    /\ ctl = NoCtl

\* one call of optimize_movement; the controller keeps no state between calls
OptimizeMovement ==
    /\ pc = "controller"
    /\ \E a \in ControllerArgs :
           ctl' = [called |-> TRUE, args |-> a, result |-> optimize_movement(a)]
    /\ UNCHANGED <<trackerVars, simVars>>

CtlNext == OptimizeMovement

CtlSpec == CtlInit /\ [][CtlNext]_vars

-----------------------------------------------------------------------------
(* Properties of the tracker (Spec) *)

\* the step is a call of update
UpdateStep == n_calls' = n_calls + 1

\* winter mode as the arguments c of a call decide it
WinterOf(c) == c.temperature_c < 20 /\ c.snow_detected

\* the effective interval of a call with arguments c
EffectiveInterval(c) ==
    IF WinterOf(c) THEN 60 ELSE c.min_update_interval_minutes

\* the sun's geometry at the instant of the latest call
SunAtCall == Optimal(call.dt_local, latitude, longitude, utc_offset)

\* C1: a call less than the effective interval (60 minutes in winter mode, else
\* the caller's minimum interval) after last_update_time reports "skip", returns
\* the tilt and azimuth the tracker had before the call, and leaves current_tilt,
\* current_azimuth and last_update_time unchanged.
C1_RateLimited ==
    [][(/\ UpdateStep
        /\ last_update_time # None
        /\ call'.dt_local - last_update_time[1] < EffectiveInterval(call'))
       => /\ ret'.action = "skip"
          /\ ret'.tilt = current_tilt
          /\ ret'.azimuth = current_azimuth
          /\ current_tilt' = current_tilt
          /\ current_azimuth' = current_azimuth
          /\ last_update_time' = last_update_time]_vars

\* a winter call, 10 to 59 minutes after the last update, was skipped although
\* the caller's interval of 10 minutes had passed
C1_Witness ==
    /\ ret.action = "skip"
    /\ WinterOf(call)
    /\ call.min_update_interval_minutes = 10
    /\ call.dt_local - last_update_time[1] >= 10
    /\ call.dt_local - last_update_time[1] < 60

\* C2: after every call of update, skipped or not, is_winter_mode_active and the
\* returned winter_mode are true exactly when the call's temperature is below
\* 2.0 C and snow is detected, whatever the earlier calls were.
C2_WinterFlag ==
    n_calls > 0 =>
        /\ is_winter_mode_active = WinterOf(call)
        /\ ret.winter_mode = WinterOf(call)

\* a skipped call below 2.0 C with snow set the flag
C2_Witness ==
    /\ n_calls >= 2
    /\ ret.action = "skip"
    /\ call.temperature_c = 19
    /\ is_winter_mode_active

\* C3 as stated: a call in winter mode that is not skipped commits the azimuth
\* the tracker had before the call, by day and by night.
C3_FrozenAlways ==
    [][(UpdateStep /\ ret'.action # "skip" /\ WinterOf(call'))
       => current_azimuth' = current_azimuth]_vars

\* C3 amended: a call in winter mode that is not skipped commits the azimuth the
\* tracker had before the call when the zenith is at most 90 degrees, and the
\* stow azimuth 180 when the zenith is above 90 degrees.
C3_FrozenByDay ==
    [][(UpdateStep /\ ret'.action # "skip" /\ WinterOf(call'))
       => current_azimuth' = (IF ret'.zenith > 90 THEN 180 ELSE current_azimuth)]_vars

\* a daytime winter update after a stow kept the azimuth at 180, away from the sun
C3_Witness ==
    /\ n_calls >= 2
    /\ ret.action = "winter_optimized"
    /\ current_azimuth = 180
    /\ SunAtCall.azimuth # 180

\* C4: a call that is not skipped at a zenith above 90 degrees reports "stow" and
\* commits tilt 0 and azimuth 180 outside winter mode, and tilt 65 in winter
\* mode; at a zenith of at most 90 degrees it never stows: it reports "track" or
\* "winter_optimized" and commits the tracking tilt.
C4_NightStow ==
    (ret.action \notin {"none", "skip"}) =>
        IF SunAtCall.zenith > 90
        THEN /\ ret.action = "stow"
             /\ current_tilt = (IF WinterOf(call) THEN 65 ELSE 0)
             /\ WinterOf(call) \/ current_azimuth = 180
        ELSE /\ ret.action = (IF WinterOf(call) THEN "winter_optimized" ELSE "track")
             /\ current_tilt = (IF WinterOf(call) /\ SunAtCall.zenith < 65
                                THEN 65 ELSE SunAtCall.zenith)
             /\ WinterOf(call) \/ current_azimuth = SunAtCall.azimuth % 360

\* a night call in winter mode stowed at tilt 65
C4_Witness ==
    /\ ret.action = "stow"
    /\ WinterOf(call)
    /\ SunAtCall.zenith > 90
    /\ current_tilt = 65

\* C10: with a minimum interval that is not negative, a call of update leaves
\* last_update_time unchanged or sets it at least the effective interval later,
\* whatever the timestamp of the call.
C10_Monotonic ==
    [][(/\ UpdateStep
        /\ last_update_time # None
        /\ call'.min_update_interval_minutes >= 0)
       => \/ last_update_time' = last_update_time
          \/ last_update_time'[1] >= last_update_time[1] + EffectiveInterval(call')]_vars

\* a call earlier than the last update was skipped
C10_Witness ==
    /\ ret.action = "skip"
    /\ call.min_update_interval_minutes >= 0
    /\ call.dt_local < last_update_time[1]

-----------------------------------------------------------------------------
(* Properties of the predictive controller (CtlSpec) *)

-----------------------------------------------------------------------------
(* Properties of the day simulator (SimSpec) *)

\* winter mode was active at every record so far
WinterThroughout == \A i \in 1..Len(records) : records[i].Is_Winter

\* winter mode was active at no record
NeverWinter == \A i \in 1..Len(records) : ~records[i].Is_Winter

\* the sun rises: the zenith is below 90 degrees at some tick
SunRises == \E i \in 1..Len(records) : records[i].Zenith < 90

RECURSIVE TotalPower(_, _, _)
\* the sum of Power_Dual (dual) or Power_Fixed over the records lo..hi, by halves
TotalPower(dual, lo, hi) ==
    IF lo > hi THEN 0
    ELSE IF lo = hi
         THEN (IF dual THEN records[lo].Power_Dual ELSE records[lo].Power_Fixed)
         ELSE TotalPower(dual, lo, (lo + hi) \div 2)
              + TotalPower(dual, ((lo + hi) \div 2) + 1, hi)

\* the sum of Power_Dual over the records
TotalDual == TotalPower(TRUE, 1, Len(records))

\* the sum of Power_Fixed over the records
TotalFixed == TotalPower(FALSE, 1, Len(records))

\* the arguments C8 calls invalid
InvalidInput ==
    \/ sim.temps = <<>>
    \/ sim.lat < -90 \/ sim.lat > 90
    \/ sim.lon < -180 \/ sim.lon > 180

C7_Records ==
    (sim.temps # <<>>) =>
        /\ pc \in {"loop", "done"}
        /\ Len(records) * 10 = minutes
        /\ n_calls = Len(records)
        /\ \A i \in 1..Len(records) :
               /\ records[i].Time \div 1440 = sim.date_obj \div 1440
               /\ records[i].Time % 1440 = 10 * (i - 1)
        /\ (pc = "done") => Len(records) = 144

\* C7: with a temperature profile that is not empty simulate_day terminates and
\* returns 144 records, one per tick and per tracker update, whose timestamps
\* run from 00:00 to 23:50 of the given date in steps of 10 minutes.
C7_Terminates ==
    /\ []C7_Records
    /\ (sim.temps # <<>>) ~> (pc = "done")

\* a returned day of 144 records, one of them from a skipped winter update
C7_Witness ==
    /\ pc = "done"
    /\ Len(records) = 144
    /\ records[144].Time % 1440 = 23 * 60 + 50
    /\ \E i \in 1..Len(records) :
           /\ records[i].Is_Winter
           /\ records[i].Zenith < 90
           /\ records[i].Opt_Tilt > records[i].Dual_Tilt

\* C8: with an empty temperature profile, or a latitude or longitude out of
\* range, simulate_day fails with InvalidInputError and produces no record.
C8_InvalidInputError ==
    InvalidInput => (records = <<>> /\ pc \in {"loop", "InvalidInputError"})

\* C9 as stated: on a day where the sun rises, at a valid location, the sum of
\* Power_Dual is at least the sum of Power_Fixed, winter mode or not.
C9_DualAtLeastFixed ==
    (pc = "done" /\ ~InvalidInput /\ SunRises) => TotalDual >= TotalFixed

\* C9 amended: on a day where the sun rises and winter mode is active at no
\* tick, the sum of Power_Dual is at least the sum of Power_Fixed.
C9_DualAtLeastFixedNoWinter ==
    (pc = "done" /\ SunRises /\ NeverWinter)
        => TotalDual >= TotalFixed

\* a returned day without winter mode on which the tracker collected more
C9_Witness ==
    /\ pc = "done"
    /\ SunRises
    /\ NeverWinter
    /\ TotalDual > TotalFixed

-----------------------------------------------------------------------------
(* C11 *)

\* the actions an update call can return
UpdateActions == {"track", "winter_optimized", "stow", "skip"}

\* C11: in every state of a tracker, from construction through any sequence
\* of update calls in any mode (track, winter_optimized, stow, skip),
\* current_tilt is within 0..90 and current_azimuth is at least 0 and below
\* 360, and the tilt and azimuth returned by update lie in the same ranges.
C11_AnglesInRange ==
    /\ current_tilt \in 0..90
    /\ current_azimuth >= 0 /\ current_azimuth < 360
    /\ (ret.action \in UpdateActions) =>
           /\ ret.tilt \in 0..90
           /\ ret.azimuth >= 0 /\ ret.azimuth < 360

\* a tracking call at an instant where the sun's azimuth is computed as 360:
\* the wrap has acted, the committed and the returned azimuth are 0
C11_Witness ==
    /\ pc = "tracker"
    /\ n_calls > 0
    /\ ret.action = "track"
    /\ SunAtCall.zenith <= 90
    /\ SunAtCall.azimuth = 360
    /\ ret.azimuth = 0
    /\ current_azimuth = 0
    /\ current_tilt = SunAtCall.tilt

====
